---- MODULE Spec2Model ----
(***************************************************************************)
(* aws-mfa: the credentials file model of src/config/credentials.rs.       *)
(*                                                                         *)
(* A string is a sequence of one-character strings, so that the regular    *)
(* expression RE_PROFILE, BufRead::lines and the two to_string             *)
(* implementations work on characters as the Rust code does.  A            *)
(* Credential is a record [profile, lines]; a ConfigFile is the sequence   *)
(* of its credentials.                                                     *)
(***************************************************************************)
EXTENDS Integers, Sequences, FiniteSets, TLC

VARIABLES
    file,      \* the credentials file on disk: [exists, text]
    config,    \* the value the last operation returned: [state, credentials]
    written,   \* the ConfigFile whose to_string is the file's text, if any
    last,      \* the most recent operation, its arguments and its receiver
    prev,      \* the operation before it
    steps,     \* the number of operations performed
    capture,   \* a call of capture_profile: [line, done, some, str]
    run        \* an execution of run() in main.rs: [pc, trace, orig, backup]

vars == <<file, config, written, last, prev, steps, capture, run>>

-----------------------------------------------------------------------------
(* Bounds of the model. *)

\* the number of operations in one behaviour
MaxSteps == 5

\* the number of newline-separated pieces of an arbitrary credentials file
MaxLines == 4

\* the number of characters of a line given to capture_profile
MaxLen == 6

-----------------------------------------------------------------------------
(* Characters. *)

LF == "\n"
CR == "\r"
\* a byte sequence that is not valid UTF-8 (BufRead::lines fails on its line)
INVALID == "<ff>"

Min(S) == CHOOSE x \in S : \A y \in S : x <= y
Max(S) == CHOOSE x \in S : \A y \in S : x >= y

\* slice::join: the elements of seqs concatenated, sep between neighbours
RECURSIVE join(_, _)
join(seqs, sep) ==
    IF seqs = <<>> THEN <<>>
    ELSE IF Len(seqs) = 1 THEN seqs[1]
    ELSE seqs[1] \o sep \o join(Tail(seqs), sep)

-----------------------------------------------------------------------------
(* RE_PROFILE and capture_profile. *)

\* RE_PROFILE with a lazy group, (.+?): the match ends at the first bracket
\* that can close it
RE_PROFILE_lazy(line) ==
    LET Closes(i) == {j \in (i + 2)..Len(line) :
                         /\ line[j] = "]"
                         /\ \A k \in (i + 1)..(j - 1) : line[k] # LF}
        Opens == {i \in 1..Len(line) : line[i] = "[" /\ Closes(i) # {}}
    IN  IF Opens = {} THEN {}
        ELSE LET i == Min(Opens) IN {<<i, Min(Closes(i))>>}

\* Regex::new(r"\[(.+)\]").captures(line): the leftmost match, the group
\* greedy; '.' is any character but the line feed.  The result is the set
\* holding the pair <<i, j>> of the positions of the matched brackets, or
\* the empty set when nothing matches.
RE_PROFILE(line) ==
    LET Closes(i) == {j \in (i + 2)..Len(line) :
                         /\ line[j] = "]"
                         /\ \A k \in (i + 1)..(j - 1) : line[k] # LF}
        Opens == {i \in 1..Len(line) : line[i] = "[" /\ Closes(i) # {}}
    IN  IF Opens = {} THEN {}
        ELSE LET i == Min(Opens) IN {<<i, Max(Closes(i))>>}

\* capture_profile: Some(group 1 of the match) or None
capture_profile(line) ==
    LET caps == RE_PROFILE(line)
    IN  IF caps = {} THEN [some |-> FALSE, str |-> <<>>]
        ELSE LET m == CHOOSE c \in caps : TRUE
             IN  [some |-> TRUE, str |-> SubSeq(line, m[1] + 1, m[2] - 1)]

-----------------------------------------------------------------------------
(* Credential and ConfigFile. *)

Credential_new(profile, lines) == [profile |-> profile, lines |-> lines]

\* Credential's to_string ending every body line with a line feed
Credential_to_string_writeln(cred) ==
    <<"[">> \o cred.profile \o <<"]", LF>>
    \o join([i \in 1..Len(cred.lines) |-> cred.lines[i] \o <<LF>>], <<>>)

\* impl ToString for Credential: format!("[{}]\n{}", profile, lines.join("\n"))
Credential_to_string(cred) ==
    <<"[">> \o cred.profile \o <<"]", LF>> \o join(cred.lines, <<LF>>)

\* ConfigFile's to_string joining the credentials' strings by one line feed
ConfigFile_to_string_single(credentials) ==
    join([i \in 1..Len(credentials) |-> Credential_to_string(credentials[i])],
         <<LF>>)

\* impl ToString for ConfigFile: the credentials' strings joined by "\n\n"
ConfigFile_to_string(credentials) ==
    join([i \in 1..Len(credentials) |-> Credential_to_string(credentials[i])],
         <<LF, LF>>)

\* add_credential without the test of the pending profile
add_credential_always(p, ls, creds) == Append(creds, Credential_new(p, ls))

\* add_credential adding the lines to the last credential when it is of the
\* same profile
add_credential_merge(p, ls, creds) ==
    IF p = <<>> THEN creds
    ELSE IF creds # <<>> /\ creds[Len(creds)].profile = p
         THEN [creds EXCEPT ![Len(creds)].lines = @ \o ls]
         ELSE Append(creds, Credential_new(p, ls))

\* add_credential skipping a section without body lines as well
add_credential_nonempty(p, ls, creds) ==
    IF p # <<>> /\ ls # <<>> THEN Append(creds, Credential_new(p, ls)) ELSE creds

\* ConfigFile::add_credential: push unless the pending profile is empty
add_credential(p, ls, creds) ==
    IF p # <<>> THEN Append(creds, Credential_new(p, ls)) ELSE creds

\* remove_credential dropping only the first credential of the profile
remove_credential_first(credentials, profile) ==
    LET hits == {i \in 1..Len(credentials) : credentials[i].profile = profile}
    IN  IF hits = {} THEN credentials
        ELSE LET h == Min(hits)
             IN  SubSeq(credentials, 1, h - 1)
                 \o SubSeq(credentials, h + 1, Len(credentials))

\* remove_credential with the filter's test inverted
remove_credential_inverted(credentials, profile) ==
    SelectSeq(credentials, LAMBDA cred : cred.profile = profile)

\* ConfigFile::remove_credential: keep the credentials of another profile
remove_credential(credentials, profile) ==
    SelectSeq(credentials, LAMBDA cred : cred.profile # profile)

\* set_credential overwriting the credential of the same profile, if any
set_credential_upsert(credentials, cred) ==
    LET hits == {i \in 1..Len(credentials) :
                    credentials[i].profile = cred.profile}
    IN  IF hits = {} THEN Append(credentials, cred)
        ELSE [credentials EXCEPT ![Min(hits)] = cred]

\* ConfigFile::set_credential: push
set_credential(credentials, cred) == Append(credentials, cred)

-----------------------------------------------------------------------------
(* Reading the file. *)

\* BufRead::lines over the file's text: a line ends at a line feed, which
\* is removed together with a carriage return right before it; the text
\* after the last line feed is a line when it is not empty.
RECURSIVE read_lines(_, _, _)
read_lines(text, i, cur) ==
    IF i > Len(text) THEN (IF cur = <<>> THEN <<>> ELSE <<cur>>)
    ELSE IF text[i] = LF
         THEN LET n == Len(cur)
                  line == IF n > 0 /\ cur[n] = CR THEN SubSeq(cur, 1, n - 1)
                          ELSE cur
              IN  <<line>> \o read_lines(text, i + 1, <<>>)
         ELSE read_lines(text, i + 1, Append(cur, text[i]))

reader_lines(text) == read_lines(text, 1, <<>>)

\* a line BufRead::lines yields as Err: its bytes are not UTF-8
read_fails(line) == \E k \in 1..Len(line) : line[k] = INVALID

Ok(credentials) == [state |-> "ok", credentials |-> credentials]
Err == [state |-> "err", credentials |-> <<>>]

\* the loop of from_path leaving the loop at a line it cannot read, and
\* returning what it has parsed
RECURSIVE from_path_loop_partial(_, _, _, _, _)
from_path_loop_partial(ls, k, profile, lines, credentials) ==
    IF k > Len(ls) \/ read_fails(ls[k])
    THEN Ok(add_credential(profile, lines, credentials))
    ELSE LET line == ls[k]
             p == capture_profile(line)
         IN  IF p.some
             THEN from_path_loop_partial(ls, k + 1, p.str, <<>>,
                      add_credential(profile, lines, credentials))
             ELSE IF line # <<>>
                  THEN from_path_loop_partial(ls, k + 1, profile,
                           Append(lines, line), credentials)
                  ELSE from_path_loop_partial(ls, k + 1, profile, lines,
                           credentials)

\* the for loop of ConfigFile::from_path from line k on, and what follows it
RECURSIVE from_path_loop(_, _, _, _, _)
from_path_loop(ls, k, profile, lines, credentials) ==
    IF k > Len(ls) THEN Ok(add_credential(profile, lines, credentials))
    ELSE IF read_fails(ls[k]) THEN Err
    ELSE LET line == ls[k]
             p == capture_profile(line)
         IN  IF p.some
             THEN from_path_loop(ls, k + 1, p.str, <<>>,
                                 add_credential(profile, lines, credentials))
             ELSE IF line # <<>>
                  THEN from_path_loop(ls, k + 1, profile, Append(lines, line),
                                      credentials)
                  ELSE from_path_loop(ls, k + 1, profile, lines, credentials)

\* the records ConfigFile::from_path makes of the lines ls
parse(ls) == from_path_loop(ls, 1, <<>>, <<>>, <<>>)

\* ConfigFile::from_path: File::open, then the loop over reader.lines()
from_path(f) ==
    IF ~f.exists THEN Err ELSE parse(reader_lines(f.text))

-----------------------------------------------------------------------------
(* Inputs. *)

A == <<"a">>
B == <<"b">>

\* profile names given to remove_credential and Credential::new
Profiles == {<<>>, A, B}

\* the credentials a caller builds with Credential::new
CredInputs ==
    { Credential_new(A, <<>>),
      Credential_new(A, <<A>>),
      Credential_new(B, <<<<"b", CR>>, A>>),
      Credential_new(<<>>, <<A>>) }

\* credentials files at the start of a session: an empty file, a file as
\* mock/test-credentials1 (two sections), a hand-edited file with leading
\* content, a blank line and a repeated section
SampleFiles ==
    { <<>>,
      <<"[", "a", "]", LF, "a", LF, "b", LF, "[", "b", "]", LF, "a", LF>>,
      <<"b", LF, "[", "a", "]", LF, LF, "[", "b", "]", CR, LF, "a", LF,
        "[", "a", "]">> }

\* the pieces an arbitrary file is made of
Pieces ==
    { <<>>, A, <<"b", CR>>, <<"[", "a", "]">>, <<"[", "b", "]">>,
      <<"[", "]">>, <<"a", INVALID>> }

\* sequences of at most n elements of S
SeqsUpTo(S, n) == UNION {[1..m -> S] : m \in 0..n}

\* every text of at most MaxLines pieces, the last one with or without its
\* line feed
Files ==
    {join(ps, <<LF>>) \o e : ps \in SeqsUpTo(Pieces, MaxLines),
                             e \in {<<>>, <<LF>>}}

-----------------------------------------------------------------------------
(* State. *)

NoCred == Credential_new(<<>>, <<>>)
Unloaded == [state |-> "none", credentials |-> <<>>]
NoOp == [op |-> "none", profile |-> <<>>, cred |-> NoCred, before |-> Unloaded]
NotWritten == [valid |-> FALSE, credentials |-> <<>>]

Op(name, profile, cred) ==
    [op |-> name, profile |-> profile, cred |-> cred, before |-> config]

NoFile == [exists |-> FALSE, text |-> <<>>]
NoCapture == [line |-> <<>>, done |-> FALSE, some |-> FALSE, str |-> <<>>]
NoRun == [pc |-> "none", trace |-> <<>>, orig |-> NoFile, backup |-> NoFile]

InitWith(texts) ==
    /\ file \in texts
    /\ config = Unloaded
    /\ written = NotWritten
    /\ last = NoOp
    /\ prev = NoOp
    /\ steps = 0
    /\ capture = NoCapture
    /\ run = NoRun

\* a session starts with one of the sample files on disk
Init == InitWith({[exists |-> TRUE, text |-> t] : t \in SampleFiles})

\* a session starts with an arbitrary file on disk, or none
ParseInit ==
    InitWith({[exists |-> TRUE, text |-> t] : t \in Files}
             \cup {[exists |-> FALSE, text |-> <<>>]})

Record(op) ==
    /\ last' = op
    /\ prev' = last
    /\ steps' = steps + 1
    /\ UNCHANGED <<capture, run>>

\* ConfigFile::from_path(credentials_path())
FromPath ==
    /\ steps < MaxSteps
    /\ config' = from_path(file)
    /\ Record(Op("from_path", <<>>, NoCred))
    /\ UNCHANGED <<file, written>>

\* config.remove_credential(profile)
RemoveCredential(profile) ==
    /\ steps < MaxSteps
    /\ config.state = "ok"
    /\ config' = Ok(remove_credential(config.credentials, profile))
    /\ Record(Op("remove_credential", profile, NoCred))
    /\ UNCHANGED <<file, written>>

\* config.set_credential(cred)
SetCredential(cred) ==
    /\ steps < MaxSteps
    /\ config.state = "ok"
    /\ config' = Ok(set_credential(config.credentials, cred))
    /\ Record(Op("set_credential", cred.profile, cred))
    /\ UNCHANGED <<file, written>>

\* config.write(credentials_path()): std::fs::write of to_string()
Write ==
    /\ steps < MaxSteps
    /\ config.state = "ok"
    /\ file' = [exists |-> TRUE, text |-> ConfigFile_to_string(config.credentials)]
    /\ written' = [valid |-> TRUE, credentials |-> config.credentials]
    /\ Record(Op("write", <<>>, NoCred))
    /\ UNCHANGED config

Next ==
    \/ FromPath
    \/ \E profile \in Profiles : RemoveCredential(profile)
    \/ \E cred \in CredInputs : SetCredential(cred)
    \/ Write

Spec == Init /\ [][Next]_vars

ParseNext ==
    \/ FromPath
    \/ Write

SpecParse == ParseInit /\ [][ParseNext]_vars

-----------------------------------------------------------------------------
(* capture_profile on its own. *)

\* the characters of a line: a letter, the brackets, the line terminators
LineChars == {"a", "[", "]", LF, CR}

\* a string of at most MaxLen characters is about to be given to
\* capture_profile
CaptureInit ==
    /\ file = NoFile
    /\ config = Unloaded
    /\ written = NotWritten
    /\ last = NoOp
    /\ prev = NoOp
    /\ steps = 0
    /\ run = NoRun
    /\ \E l \in SeqsUpTo(LineChars, MaxLen) : capture = [NoCapture EXCEPT !.line = l]

\* capture_profile(&line)
CaptureProfile ==
    /\ ~capture.done
    /\ capture' = [line |-> capture.line,
                   done |-> TRUE,
                   some |-> capture_profile(capture.line).some,
                   str |-> capture_profile(capture.line).str]
    /\ UNCHANGED <<file, config, written, last, prev, steps, run>>

CaptureNext == CaptureProfile

SpecCapture == CaptureInit /\ [][CaptureNext]_vars

-----------------------------------------------------------------------------
(* run() of main.rs, from the reading of the settings to the writing of the
   credentials file. *)

\* the backup file's name: DEFAULT_BACKUP_FILE, or the credentials file's own
\* name given with --backup
BackupNames == {"credentials_bk", "credentials"}

\* the body lines made of the session tokens
TokenBodies == {<<A>>, <<<<"b", CR>>, A>>}

\* tokens.to_aws_credential(mfa_profile): a credential of that profile
to_aws_credential(mfa_profile, body) == Credential_new(mfa_profile, body)

\* run going on after a failed backup as after a successful one
after_backup_ignored(ok) == "write"

\* backup_credentials(&backup)?: run goes on to write_mfa_credentials when
\* the copy succeeded, and returns the error otherwise
after_backup(ok) == IF ok THEN "write" ELSE "failed"

\* .output()? and if status.success(): run goes on to the tokens when the
\* command ran and reported success
after_command(outcome) ==
    IF outcome = "command_success" THEN "tokens" ELSE "failed"

\* the credentials files run() may find: the sample files, a file with a
\* line that is not UTF-8, or none
RunFiles ==
    {[exists |-> TRUE, text |-> t] :
        t \in SampleFiles \cup {<<"[", "a", "]", LF, "a", INVALID, LF>>}}
    \cup {NoFile}

\* run() is called with some credentials file on disk, or none, and with no
\* backup file or the one an earlier run left
RunInit ==
    /\ file \in RunFiles
    /\ config = Unloaded
    /\ written = NotWritten
    /\ last = NoOp
    /\ prev = NoOp
    /\ steps = 0
    /\ capture = NoCapture
    /\ \E old \in {NoFile, [exists |-> TRUE, text |-> <<"[", "a", "]", LF>>]} :
           run = [pc |-> "start", trace |-> <<>>, orig |-> file, backup |-> old]

\* run at pc performs a step with the outcome event and goes on at next
Step(event, next) ==
    run' = [run EXCEPT !.pc = next, !.trace = Append(@, event)]

\* MfaConfig::read()?, the duration's parse()? and get_device_arn(..)?
RunSetup ==
    /\ run.pc = "start"
    /\ \E ok \in BOOLEAN :
           Step(IF ok THEN "setup_ok" ELSE "setup_err",
                IF ok THEN "command" ELSE "failed")
    /\ UNCHANGED <<file, config, written, last, prev, steps, capture>>

\* Command::new("aws")...output()? and the test of status.success()
RunCommand ==
    /\ run.pc = "command"
    /\ \E outcome \in {"command_err", "command_failure", "command_success"} :
           Step(outcome, after_command(outcome))
    /\ UNCHANGED <<file, config, written, last, prev, steps, capture>>

\* serde_json::from_slice(&stdout)?
RunTokens ==
    /\ run.pc = "tokens"
    /\ \E ok \in BOOLEAN :
           Step(IF ok THEN "tokens_ok" ELSE "tokens_err",
                IF ok THEN "backup" ELSE "failed")
    /\ UNCHANGED <<file, config, written, last, prev, steps, capture>>

\* backup_credentials(&backup)?: std::fs::copy of the credentials file to
\* the backup file.  The copy fails when there is no credentials file, and
\* may fail otherwise; a copy of the file onto itself truncates it.
RunBackup ==
    /\ run.pc = "backup"
    /\ \E name \in BackupNames, ok \in BOOLEAN :
           /\ ok => file.exists
           /\ IF ~ok THEN
                  /\ run' = [run EXCEPT !.pc = after_backup(FALSE),
                                        !.trace = Append(@, "backup_err")]
                  /\ UNCHANGED file
              ELSE IF name = "credentials" THEN
                  /\ file' = [exists |-> TRUE, text |-> <<>>]
                  /\ run' = [run EXCEPT !.pc = after_backup(TRUE),
                                        !.trace = Append(@, "backup_ok")]
              ELSE
                  /\ run' = [run EXCEPT !.pc = after_backup(TRUE),
                                        !.trace = Append(@, "backup_ok"),
                                        !.backup = file]
                  /\ UNCHANGED file
    /\ UNCHANGED <<config, written, last, prev, steps, capture>>

\* write_mfa_credentials(&mfa_profile, &tokens): from_path(..)?, then
\* remove_credential, set_credential and write; a failed std::fs::write
\* leaves the file as it was or truncated
RunWriteMfaCredentials ==
    /\ run.pc = "write"
    /\ \E mfa_profile \in Profiles, body \in TokenBodies :
           LET cred == to_aws_credential(mfa_profile, body)
               read == from_path(file)
               text == ConfigFile_to_string(
                           set_credential(
                               remove_credential(read.credentials, mfa_profile),
                               cred))
           IN  IF read.state # "ok" THEN
                   /\ Step("from_path_err", "failed")
                   /\ UNCHANGED file
               ELSE
                   \/ /\ file' = [exists |-> TRUE, text |-> text]
                      /\ run' = [run EXCEPT
                                     !.pc = "done",
                                     !.trace = @ \o <<"from_path_ok", "write_ok">>]
                   \/ /\ file' \in {file, [exists |-> TRUE, text |-> <<>>]}
                      /\ run' = [run EXCEPT
                                     !.pc = "failed",
                                     !.trace = @ \o <<"from_path_ok", "write_err">>]
    /\ UNCHANGED <<config, written, last, prev, steps, capture>>

RunNext ==
    \/ RunSetup
    \/ RunCommand
    \/ RunTokens
    \/ RunBackup
    \/ RunWriteMfaCredentials

SpecRun == RunInit /\ [][RunNext]_vars

-----------------------------------------------------------------------------
(* Properties of remove_credential and set_credential. *)

\* the positions of S whose credential is not of profile n
Survivors(S, n) == {i \in 1..Len(S) : S[i].profile # n}

\* T is S without the credentials of profile n: as many elements as S has
\* survivors, the k-th survivor of S being the k-th element of T
IsWithout(T, S, n) ==
    /\ Len(T) = Cardinality(Survivors(S, n))
    /\ \A i \in Survivors(S, n) :
           T[Cardinality({k \in Survivors(S, n) : k <= i})] = S[i]

\* the last two operations were remove_credential(n) and then
\* set_credential(r) with r of profile n
Replaced ==
    /\ prev.op = "remove_credential"
    /\ last.op = "set_credential"
    /\ last.cred.profile = prev.profile

\* C2: S.remove_credential(n).set_credential(r), r of profile n, holds exactly
\* one credential of profile n, which is r and is the last one, and before it
\* the credentials of S of another profile, unchanged and in their order.
C2_ReplaceByRemoveThenAppend ==
    Replaced =>
        LET T == config.credentials
            S == prev.before.credentials
            n == prev.profile
        IN  /\ Cardinality({i \in 1..Len(T) : T[i].profile = n}) = 1
            /\ Len(T) >= 1
            /\ T[Len(T)] = last.cred
            /\ IsWithout(SubSeq(T, 1, Len(T) - 1), S, n)

\* a replace on a store holding two credentials of the profile and another
C2_Witness ==
    /\ Replaced
    /\ Cardinality({i \in 1..Len(prev.before.credentials) :
                       prev.before.credentials[i].profile = prev.profile}) >= 2
    /\ Survivors(prev.before.credentials, prev.profile) # {}

\* C3: the credentials of S.remove_credential(n) are those of S whose profile
\* is not n, in their order and unchanged; S itself when none is of profile n.
C3_RemoveFilters ==
    last.op = "remove_credential" =>
        LET T == config.credentials
            S == last.before.credentials
            n == last.profile
        IN  /\ config.state = "ok"
            /\ IsWithout(T, S, n)
            /\ (\A i \in 1..Len(S) : S[i].profile # n) => T = S

\* a remove that drops a credential lying between two it keeps
C3_Witness ==
    /\ last.op = "remove_credential"
    /\ \E i, j, k \in 1..Len(last.before.credentials) :
           /\ i < j /\ j < k
           /\ last.before.credentials[i].profile # last.profile
           /\ last.before.credentials[j].profile = last.profile
           /\ last.before.credentials[k].profile # last.profile

\* the last two operations were remove_credential(n), twice
RemovedTwice ==
    /\ prev.op = "remove_credential"
    /\ last.op = "remove_credential"
    /\ last.profile = prev.profile

\* C4: S.remove_credential(n).remove_credential(n) = S.remove_credential(n).
C4_RemoveIdempotent ==
    RemovedTwice => config = last.before

\* the first of the two removes dropped two credentials
C4_Witness ==
    /\ RemovedTwice
    /\ Len(prev.before.credentials) >= Len(last.before.credentials) + 2
    /\ Len(last.before.credentials) >= 1

\* C5: S.set_credential(r) is the credentials of S, unchanged and in their
\* order, followed by r: one more than S holds, whatever r's profile.
C5_SetAppends ==
    last.op = "set_credential" =>
        LET T == config.credentials
            S == last.before.credentials
        IN  /\ config.state = "ok"
            /\ Len(T) = Len(S) + 1
            /\ \A i \in 1..Len(S) : T[i] = S[i]
            /\ T[Len(T)] = last.cred

\* a set of a credential whose profile the store already holds, with a
\* different body
C5_Witness ==
    /\ last.op = "set_credential"
    /\ \E i \in 1..Len(last.before.credentials) :
           /\ last.before.credentials[i].profile = last.cred.profile
           /\ last.before.credentials[i] # last.cred

-----------------------------------------------------------------------------
(* Properties of to_string. *)

\* the character c occurs in the string str
Has(str, c) == \E k \in 1..Len(str) : str[k] = c

\* each line of ls with a line feed before it
RECURSIVE EachAfterLF(_)
EachAfterLF(ls) ==
    IF ls = <<>> THEN <<>> ELSE <<LF>> \o Head(ls) \o EachAfterLF(Tail(ls))

\* a record as C7 renders it: the bare header and one line feed for an empty
\* body, else the header and the body lines with one line feed between
\* neighbours and none at the end
Rendering(cred) ==
    IF cred.lines = <<>> THEN <<"[">> \o cred.profile \o <<"]">> \o <<LF>>
    ELSE <<"[">> \o cred.profile \o <<"]">> \o EachAfterLF(cred.lines)

\* the renderings of the records from the k-th on, two line feeds before each
RECURSIVE RestRenderings(_, _)
RestRenderings(S, k) ==
    IF k > Len(S) THEN <<>>
    ELSE <<LF, LF>> \o Rendering(S[k]) \o RestRenderings(S, k + 1)

Renderings(S) ==
    IF S = <<>> THEN <<>> ELSE Rendering(S[1]) \o RestRenderings(S, 2)

\* C7: to_string is the records' renderings joined by a double newline, a
\* record rendering as its header, a newline and its body lines joined by
\* single newlines: no trailing newline after a non-empty body, the bare header
\* and one newline for an empty body.
C7_ToStringRendering ==
    last.op = "write" =>
        /\ file.exists
        /\ file.text = Renderings(config.credentials)

\* a write of a store holding a record without body and a record of two lines
C7_Witness ==
    /\ last.op = "write"
    /\ \E i, j \in 1..Len(config.credentials) :
           /\ config.credentials[i].lines = <<>>
           /\ Len(config.credentials[j].lines) >= 2

\* the text cut at its line feeds (the last piece kept, also when empty)
RECURSIVE split_lf(_, _, _)
split_lf(text, i, cur) ==
    IF i > Len(text) THEN <<cur>>
    ELSE IF text[i] = LF THEN <<cur>> \o split_lf(text, i + 1, <<>>)
    ELSE split_lf(text, i + 1, Append(cur, text[i]))

TextLines(text) == split_lf(text, 1, <<>>)

\* the header and the body lines of every record, in order
RECURSIVE RecordLines(_, _)
RecordLines(S, k) ==
    IF k > Len(S) THEN <<>>
    ELSE <<(<<"[">> \o S[k].profile \o <<"]">>)>> \o S[k].lines
         \o RecordLines(S, k + 1)

\* the index in RecordLines(S, 1) of the last line of the k-th record
RECURSIVE LastLineOf(_, _)
LastLineOf(S, k) ==
    IF k = 0 THEN 0 ELSE LastLineOf(S, k - 1) + 1 + Len(S[k].lines)

\* the position in L of its m-th non-empty line
NthNonBlank(L, m) ==
    CHOOSE i \in 1..Len(L) :
        /\ L[i] # <<>>
        /\ Cardinality({k \in 1..i : L[k] # <<>>}) = m

\* the number of empty lines of text L between the last line of the k-th
\* record of S and the header of the next
BlankLinesAfter(S, L, k) ==
    NthNonBlank(L, LastLineOf(S, k) + 1) - NthNonBlank(L, LastLineOf(S, k)) - 1

\* the lines of the text L, the empty ones apart, are the lines of S's records
HoldsRecordLines(S, L) ==
    /\ Cardinality({i \in 1..Len(L) : L[i] # <<>>}) = Len(RecordLines(S, 1))
    /\ \A m \in 1..Len(RecordLines(S, 1)) :
           L[NthNonBlank(L, m)] = RecordLines(S, 1)[m]

\* no profile and no body line holds a line feed, and no body line is empty:
\* every record line is one non-empty line of the text
LineShaped(S) ==
    \A k \in 1..Len(S) :
        /\ ~Has(S[k].profile, LF)
        /\ \A i \in 1..Len(S[k].lines) :
               S[k].lines[i] # <<>> /\ ~Has(S[k].lines[i], LF)

\* a write of two records or more, each a sequence of whole lines
WroteSeveral ==
    /\ last.op = "write"
    /\ Len(config.credentials) >= 2
    /\ LineShaped(config.credentials)

\* C6 as stated: in the text of to_string, exactly one empty line lies between
\* the last line of a record and the header of the next, whatever the body.
C6_OneBlankLineAlways ==
    WroteSeveral =>
        /\ HoldsRecordLines(config.credentials, TextLines(file.text))
        /\ \A k \in 1..(Len(config.credentials) - 1) :
               BlankLinesAfter(config.credentials, TextLines(file.text), k) = 1

\* C6 (amended): in the text of to_string, between the last line of a record
\* and the header of the next lies exactly one empty line when the record has
\* body lines, and exactly two when its body is empty.
C6_BlankLinesBetweenRecords ==
    WroteSeveral =>
        /\ HoldsRecordLines(config.credentials, TextLines(file.text))
        /\ \A k \in 1..(Len(config.credentials) - 1) :
               BlankLinesAfter(config.credentials, TextLines(file.text), k)
                   = IF config.credentials[k].lines = <<>> THEN 2 ELSE 1

\* a write where a record with body lines and a record without are each
\* followed by another record
C6_Witness ==
    /\ WroteSeveral
    /\ \E i, j \in 1..(Len(config.credentials) - 1) :
           /\ config.credentials[i].lines = <<>>
           /\ config.credentials[j].lines # <<>>

-----------------------------------------------------------------------------
(* The round trip through write and from_path. *)

\* the file was written by ConfigFile::write and has now been read back
ReadBack ==
    /\ last.op = "from_path"
    /\ written.valid

\* profiles and body lines are non-empty and hold no bracket and no line feed
PlainNames(S) ==
    \A k \in 1..Len(S) :
        /\ S[k].profile # <<>>
        /\ ~Has(S[k].profile, "[") /\ ~Has(S[k].profile, "]")
        /\ ~Has(S[k].profile, LF)
        /\ \A i \in 1..Len(S[k].lines) :
               LET l == S[k].lines[i]
               IN  l # <<>> /\ ~Has(l, "[") /\ ~Has(l, "]") /\ ~Has(l, LF)

\* no body line ends with a carriage return
NoTrailingCR(S) ==
    \A k \in 1..Len(S) : \A i \in 1..Len(S[k].lines) :
        LET l == S[k].lines[i] IN l = <<>> \/ l[Len(l)] # CR

\* C1 as stated: from_path of the text of to_string(S) gives the records of S
\* when S's profiles and body lines are non-empty and free of brackets and
\* newlines.
C1_RoundTripPlain ==
    (ReadBack /\ PlainNames(written.credentials))
        => config = Ok(written.credentials)

\* C1 (amended): the same, when moreover no body line ends with a carriage
\* return.
C1_RoundTrip ==
    (ReadBack /\ PlainNames(written.credentials)
        /\ NoTrailingCR(written.credentials))
        => config = Ok(written.credentials)

\* a read back of a store of several records, one without body and one with
C1_Witness ==
    /\ ReadBack
    /\ PlainNames(written.credentials)
    /\ NoTrailingCR(written.credentials)
    /\ config = Ok(written.credentials)
    /\ \E i, j \in 1..Len(written.credentials) :
           /\ i < j
           /\ written.credentials[i].lines = <<>>
           /\ written.credentials[j].lines # <<>>

-----------------------------------------------------------------------------
(* Properties of from_path. *)

\* from_path has just read a file whose every line could be read
ParsedReadable ==
    /\ last.op = "from_path"
    /\ file.exists
    /\ \A i \in 1..Len(reader_lines(file.text)) :
           ~read_fails(reader_lines(file.text)[i])

\* the positions of the header lines among the lines ls
Headers(ls) == {i \in 1..Len(ls) : capture_profile(ls[i]).some}

\* the position of the first header after position h, or one past the end
NextHeader(ls, h) ==
    Min({i \in Headers(ls) : i > h} \cup {Len(ls) + 1})

\* C8: from_path gives one record per header line, in the headers' order, the
\* body of each being the non-empty lines between its header and the next
\* header or the end of input, in order; no body holds an empty line.
C8_OneRecordPerHeader ==
    ParsedReadable =>
        LET ls == reader_lines(file.text)
            T == config.credentials
        IN  /\ config.state = "ok"
            /\ Len(T) = Cardinality(Headers(ls))
            /\ \A h \in Headers(ls) :
                   LET k == Cardinality({i \in Headers(ls) : i <= h})
                   IN  /\ T[k].profile = capture_profile(ls[h]).str
                       /\ T[k].lines =
                              SelectSeq(SubSeq(ls, h + 1, NextHeader(ls, h) - 1),
                                        LAMBDA l : l # <<>>)
            /\ \A k \in 1..Len(T) : \A i \in 1..Len(T[k].lines) :
                   T[k].lines[i] # <<>>

\* a read of two sections of one name, the first with a body line and an
\* empty line
C8_Witness ==
    /\ ParsedReadable
    /\ Len(config.credentials) = 2
    /\ config.credentials[1].profile = config.credentials[2].profile
    /\ config.credentials[1].lines # <<>>
    /\ \E i \in 1..Len(reader_lines(file.text)) :
           /\ reader_lines(file.text)[i] = <<>>
           /\ i > Min(Headers(reader_lines(file.text)))
           /\ i < Max(Headers(reader_lines(file.text)))

\* the number of body lines of the records of T from the k-th on
RECURSIVE BodyLines(_, _)
BodyLines(T, k) ==
    IF k > Len(T) THEN 0 ELSE Len(T[k].lines) + BodyLines(T, k + 1)

\* C9: the lines before the first header are in no record: the records hold
\* as many body lines as there are non-empty non-header lines after the first
\* header, the first record is the first header's, and without a header there
\* is no record.
C9_LeadingContentDropped ==
    ParsedReadable =>
        LET ls == reader_lines(file.text)
            T == config.credentials
        IN  /\ config.state = "ok"
            /\ Headers(ls) = {} => T = <<>>
            /\ Headers(ls) # {} =>
                   /\ T # <<>>
                   /\ T[1].profile = capture_profile(ls[Min(Headers(ls))]).str
                   /\ BodyLines(T, 1) =
                          Cardinality({i \in 1..Len(ls) :
                                          /\ i > Min(Headers(ls))
                                          /\ i \notin Headers(ls)
                                          /\ ls[i] # <<>>})
                   /\ config = parse(SubSeq(ls, Min(Headers(ls)), Len(ls)))

\* a read of a file with a non-empty line before its first header and a body
\* line after it
C9_Witness ==
    /\ ParsedReadable
    /\ config.state = "ok"
    /\ Headers(reader_lines(file.text)) # {}
    /\ Min(Headers(reader_lines(file.text))) > 1
    /\ reader_lines(file.text)[1] # <<>>
    /\ BodyLines(config.credentials, 1) >= 1

\* a read of a file of non-empty lines without any header
C9_WitnessNoHeader ==
    /\ ParsedReadable
    /\ Headers(reader_lines(file.text)) = {}
    /\ \E i \in 1..Len(reader_lines(file.text)) :
           reader_lines(file.text)[i] # <<>>

\* C10: in every ConfigFile from_path, Credential::new, set_credential and
\* remove_credential give, every credential's profile is a non-empty string.
C10_ProfilesNonEmpty ==
    config.state = "ok" =>
        \A i \in 1..Len(config.credentials) :
            config.credentials[i].profile # <<>>

-----------------------------------------------------------------------------
(* Read failures of from_path. *)

\* the positions of the lines of the file that cannot be read
Unreadable(ls) == {i \in 1..Len(ls) : read_fails(ls[i])}

\* from_path has just run on a file that is missing or has an unreadable line
ParsedUnreadable ==
    /\ last.op = "from_path"
    /\ \/ ~file.exists
       \/ Unreadable(reader_lines(file.text)) # {}

\* C11: when the file cannot be opened or one of its lines cannot be read,
\* from_path returns an error and no store, also when whole sections were
\* parsed from the lines before.
C11_ReadFailureDiscards ==
    ParsedUnreadable =>
        /\ config.state = "err"
        /\ config.credentials = <<>>

\* a read failing on a line that follows a whole section (its header, a body
\* line and the next header)
C11_Witness ==
    /\ last.op = "from_path"
    /\ file.exists
    /\ config.state = "err"
    /\ LET ls == reader_lines(file.text)
       IN  /\ Unreadable(ls) # {}
           /\ \E h, g \in Headers(ls) :
                  /\ h + 1 < g
                  /\ g < Min(Unreadable(ls))
                  /\ ls[h + 1] # <<>>

\* a from_path of a file that does not exist
C11_WitnessNoFile ==
    /\ last.op = "from_path"
    /\ ~file.exists
    /\ config.state = "err"

-----------------------------------------------------------------------------
(* Header detection. *)

\* the positions of the character c in the string str
Positions(str, c) == {k \in 1..Len(str) : str[k] = c}

\* the last ']' of the line lies two positions or more after its first '['
Bracketed(l) ==
    /\ Positions(l, "[") # {}
    /\ Positions(l, "]") # {}
    /\ Max(Positions(l, "]")) >= Min(Positions(l, "[")) + 2

\* C12: for every line (a string without line feed), capture_profile returns a
\* name exactly when the last ']' lies at least two positions after the first
\* '[', and the name is the text strictly between the two; it returns none for
\* every other line.
C12_GreedyCapture ==
    (capture.done /\ ~Has(capture.line, LF)) =>
        /\ capture.some = Bracketed(capture.line)
        /\ Bracketed(capture.line) =>
               capture.str = SubSeq(capture.line,
                                    Min(Positions(capture.line, "[")) + 1,
                                    Max(Positions(capture.line, "]")) - 1)
        /\ ~Bracketed(capture.line) => capture.str = <<>>

\* capture_profile of "[a][a]" gave "a][a"
C12_Witness ==
    /\ capture.done
    /\ capture.line = <<"[", "a", "]", "[", "a", "]">>
    /\ capture.some
    /\ capture.str = <<"a", "]", "[", "a">>

\* capture_profile of "[]" gave none
C12_WitnessNone ==
    /\ capture.done
    /\ capture.line = <<"[", "]">>
    /\ ~capture.some

-----------------------------------------------------------------------------
(* The order of run(). *)

\* the event e is in run's trace
Did(e) == \E i \in 1..Len(run.trace) : run.trace[i] = e

\* the command failed, its output did not parse, or the backup copy failed
FailedBeforeWrite ==
    \/ Did("command_err") \/ Did("command_failure")
    \/ Did("tokens_err")
    \/ Did("backup_err")

\* ConfigFile::from_path or ConfigFile::write was called on the credentials
\* path
TouchedCredentials ==
    \/ Did("from_path_ok") \/ Did("from_path_err")
    \/ Did("write_ok") \/ Did("write_err")

\* C13: in run, from_path and write on the credentials path come only after
\* the command reported success, its output parsed and the backup copy
\* succeeded, in that order; when the command fails, the parse fails or the
\* backup fails, neither is performed and the credentials file is unchanged.
C13_WriteOnlyAfterBackup ==
    /\ FailedBeforeWrite =>
           /\ ~TouchedCredentials
           /\ file = run.orig
           /\ run.pc = "failed"
    /\ TouchedCredentials =>
           /\ Len(run.trace) >= 5
           /\ SubSeq(run.trace, 1, 4)
                  = <<"setup_ok", "command_success", "tokens_ok", "backup_ok">>

\* a run whose backup copy failed although a credentials file with records
\* was there, after the command succeeded and its output parsed
C13_Witness ==
    /\ run.trace = <<"setup_ok", "command_success", "tokens_ok", "backup_err">>
    /\ run.pc = "failed"
    /\ file.exists
    /\ file.text # <<>>
    /\ file = run.orig

\* a run that wrote the credentials file
C13_WitnessWritten ==
    /\ run.pc = "done"
    /\ Did("write_ok")
    /\ file # run.orig

====
